---- MODULE Spec2Model ----
(***************************************************************************)
(* The wildlife reporting view (src/app/smotting/page.tsx): the form, the  *)
(* report list, the fetch of recent reports and the change feed, together  *)
(* with the store they talk to.  Every event handler and every             *)
(* continuation after an await is one atomic step of the single UI thread. *)
(***************************************************************************)
EXTENDS Integers, Sequences, FiniteSets, TLC

(* ---------------------------------------------------------------- bounds *)
\* calls of insert made by this form
MaxSubmits == 2
\* manual refreshes
MaxRefresh == 1
\* the client clock runs 1..MaxTime
MaxTime == 2
\* store mutations made by other clients of the collection
MaxOther == 4
\* inserts by other clients in the window specification
MaxWindow == 6
\* calls of insert in the specifications of the clock and of the teardown
MaxLifeSubmits == 1
\* inserts by other clients whose clocks disagree, in the order specification
MaxOrder == 3

(* ------------------------------------------------------------- constants *)
\* type AnimalCategories / animalOptions
AnimalCategories == {"rat", "raccoon", "fox", "bunny"}
\* useState<AnimalCategories | ''>('')
NoAnimal == ""
\* useState<Location | null>(null)
NoLocation == [null |-> TRUE]
\* two points of the map a click can yield
Locations == {[lat |-> 42, lng |-> -71], [lat |-> 43, lng |-> -70]}
\* useState<string | null>(null)
NoError == "null"
FetchErrorMsg == "Failed to load reports. Please try refreshing the page."
SubmitErrorMsg == "Failed to submit report. Please try again."
\* .limit(5)
FetchLimit == 5
\* prev.slice(0, 49)
SliceEnd == 49
\* what other clients of the collection write: they report rats, and an update
\* turns a rat into a fox or back
OtherAnimals == {"rat", "fox"}
OtherLocation == [lat |-> 42, lng |-> -71]
Times == 1..MaxTime

VARIABLES
    selectedAnimal,      \* useState selectedAnimal
    selectedLocation,    \* useState selectedLocation
    reports,             \* useState reports: the displayed list
    showSuccessMessage,  \* useState showSuccessMessage
    isLoading,           \* useState isLoading
    isSubmitting,        \* useState isSubmitting
    error,               \* useState error
    alertOpen,           \* a blocking alert() is on screen
    now,                 \* the client clock, read by new Date()
    inserts,             \* insert requests in flight: what was sent, and whether it is committed
    insertCalls,         \* number of insert calls issued so far
    timers,              \* pending setTimeout(..., 3000) callbacks
    fetches,             \* fetchRecent requests in flight
    refreshes,           \* number of manual refreshes so far
    store,               \* rows of the collection critterArray
    nextId,              \* next id the store assigns
    feed,                \* change notifications committed and not yet delivered
    others,              \* number of mutations by other clients so far
    last,                \* history: the last step of the view, and what it met
    currentTime,         \* useState currentTime, as the clock value it was formatted from
    pickedAt,            \* history: the clock when a selection last changed
    life                 \* the view's lifetime: mounted, channels open, subscribe and
                         \* removeChannel calls so far, the 1-second interval

vars == <<selectedAnimal, selectedLocation, reports, showSuccessMessage, isLoading,
          isSubmitting, error, alertOpen, now, inserts, insertCalls, timers, fetches,
          refreshes, store, nextId, feed, others, last, currentTime, pickedAt, life>>

(* --------------------------------------------------------------- helpers *)
Min(a, b) == IF a < b THEN a ELSE b

\* Array.prototype.slice(0, n)
Slice(s, n) == SubSeq(s, 1, Min(n, Len(s)))

\* FilterOut with a splice of the first match in place of the filter
RECURSIVE FilterOut_FirstMatchOnly(_, _)
FilterOut_FirstMatchOnly(s, id) ==
    IF s = <<>> THEN <<>>
    ELSE IF Head(s).id # id THEN <<Head(s)>> \o FilterOut_FirstMatchOnly(Tail(s), id)
    ELSE Tail(s)

\* Array.prototype.filter, keeping the entries whose id differs
RECURSIVE FilterOut(_, _)
FilterOut(s, id) ==
    IF s = <<>> THEN <<>>
    ELSE IF Head(s).id # id THEN <<Head(s)>> \o FilterOut(Tail(s), id)
    ELSE FilterOut(Tail(s), id)

\* MapReplace as an upsert: a row that is not in the list is added to it
MapReplace_Upsert(s, row) ==
    IF \E i \in 1..Len(s) : s[i].id = row.id
    THEN [i \in 1..Len(s) |-> IF s[i].id = row.id THEN row ELSE s[i]]
    ELSE <<row>> \o s

\* Array.prototype.map, replacing the entries whose id is that of row
MapReplace(s, row) == [i \in 1..Len(s) |-> IF s[i].id = row.id THEN row ELSE s[i]]

\* sequence s without its i-th element
RemoveAt(s, i) == SubSeq(s, 1, i - 1) \o SubSeq(s, i + 1, Len(s))

\* the orders .order('reportTime', {ascending: false}) can return: rows of equal
\* reportTime come in any order
RECURSIVE Orders(_)
Orders(S) ==
    IF S = {} THEN {<<>>}
    ELSE LET top == {r \in S : \A q \in S : q.reportTime <= r.reportTime}
         IN UNION {{<<r>> \o t : t \in Orders(S \ {r})} : r \in top}

\* the answers of select('*').order(...).limit(5)
FetchResults == {Slice(o, FetchLimit) : o \in Orders(store)}

\* the location an insert request carries
SentLocation(report) == [lat |-> report.latitude, lng |-> report.longitude]

(* ------------------------------------------------------------------ Init *)
\* the state after the first render and its mount effects: the initial
\* fetchReports() is in flight and the subscription is open
Init ==
    /\ selectedAnimal = NoAnimal
    /\ selectedLocation = NoLocation
    /\ reports = <<>>
    /\ showSuccessMessage = FALSE
    /\ isLoading = TRUE
    /\ isSubmitting = FALSE
    /\ error = NoError
    /\ alertOpen = FALSE
    /\ now = 1
    /\ inserts = <<>>
    /\ insertCalls = 0
    /\ timers = 0
    /\ fetches = <<[served |-> FALSE, rows |-> <<>>]>>
    /\ refreshes = 0
    /\ store = {}
    /\ nextId = 1
    /\ feed = <<>>
    /\ others = 0
    /\ last = [op |-> "mount", met |-> FALSE]
    /\ currentTime = 1
    /\ pickedAt = 1
    /\ life = [mounted |-> TRUE, channels |-> 1, subscribes |-> 1, removes |-> 0,
               interval |-> TRUE]

(* ------------------------------------------------------------- the form *)
\* const isFormValid = Boolean(selectedAnimal && selectedLocation) && !isSubmitting
isFormValid ==
    (selectedAnimal # NoAnimal /\ selectedLocation # NoLocation) /\ ~isSubmitting

\* handleAnimalChange, reachable while the select is enabled
handleAnimalChange(value) ==
    /\ life.mounted
    /\ ~alertOpen
    /\ ~isSubmitting
    /\ value # selectedAnimal
    /\ selectedAnimal' = value
    /\ pickedAt' = now
    /\ last' = [op |-> "select", met |-> FALSE]
    /\ UNCHANGED <<selectedLocation, reports, showSuccessMessage, isLoading, isSubmitting,
                   error, alertOpen, now, inserts, insertCalls, timers, fetches, refreshes,
                   store, nextId, feed, others, currentTime, life>>

\* MapClickHandler -> handleLocationSelect
handleLocationSelect(location) ==
    /\ life.mounted
    /\ ~alertOpen
    /\ location # selectedLocation
    /\ selectedLocation' = location
    /\ pickedAt' = now
    /\ last' = [op |-> "click", met |-> FALSE]
    /\ UNCHANGED <<selectedAnimal, reports, showSuccessMessage, isLoading, isSubmitting,
                   error, alertOpen, now, inserts, insertCalls, timers, fetches, refreshes,
                   store, nextId, feed, others, currentTime, life>>

\* handleSubmit that stamps the report with the clock of the last selection
handleSubmit_StampsSelection ==
    /\ life.mounted
    /\ ~alertOpen
    /\ IF selectedAnimal = NoAnimal \/ selectedLocation = NoLocation
       THEN /\ alertOpen' = TRUE
            /\ last' = [op |-> "alert", met |-> inserts # <<>>]
            /\ UNCHANGED <<selectedAnimal, selectedLocation, reports, showSuccessMessage,
                           isLoading, isSubmitting, error, now, inserts, insertCalls,
                           timers, fetches, refreshes, store, nextId, feed, others,
                           currentTime, pickedAt, life>>
       ELSE /\ isSubmitting' = TRUE
            /\ error' = NoError
            /\ inserts' = Append(inserts,
                  [report |-> [animalType |-> selectedAnimal,
                               latitude |-> selectedLocation.lat,
                               longitude |-> selectedLocation.lng,
                               reportTime |-> pickedAt],
                   committed |-> FALSE])
            /\ insertCalls' = insertCalls + 1
            /\ last' = [op |-> "submit", met |-> inserts # <<>>]
            /\ UNCHANGED <<selectedAnimal, selectedLocation, reports, showSuccessMessage,
                           isLoading, alertOpen, now, timers, fetches, refreshes,
                           store, nextId, feed, others,
                           currentTime, pickedAt, life>>

\* handleSubmit with setIsSubmitting(true) moved above the validation
handleSubmit_SubmittingFirst ==
    /\ life.mounted
    /\ ~alertOpen
    /\ isSubmitting' = TRUE
    /\ IF selectedAnimal = NoAnimal \/ selectedLocation = NoLocation
       THEN /\ alertOpen' = TRUE
            /\ last' = [op |-> "alert", met |-> inserts # <<>>]
            /\ UNCHANGED <<selectedAnimal, selectedLocation, reports, showSuccessMessage,
                           isLoading, error, now, inserts, insertCalls,
                           timers, fetches, refreshes, store, nextId, feed, others,
                           currentTime, pickedAt, life>>
       ELSE /\ error' = NoError
            /\ inserts' = Append(inserts,
                  [report |-> [animalType |-> selectedAnimal,
                               latitude |-> selectedLocation.lat,
                               longitude |-> selectedLocation.lng,
                               reportTime |-> now],
                   committed |-> FALSE])
            /\ insertCalls' = insertCalls + 1
            /\ last' = [op |-> "submit", met |-> inserts # <<>>]
            /\ UNCHANGED <<selectedAnimal, selectedLocation, reports, showSuccessMessage,
                           isLoading, alertOpen, now, timers, fetches, refreshes,
                           store, nextId, feed, others, currentTime, pickedAt, life>>

\* handleSubmit up to the await of the insert
handleSubmit ==
    /\ life.mounted
    /\ ~alertOpen
    /\ IF selectedAnimal = NoAnimal \/ selectedLocation = NoLocation
       THEN /\ alertOpen' = TRUE
            /\ last' = [op |-> "alert", met |-> inserts # <<>>]
            /\ UNCHANGED <<selectedAnimal, selectedLocation, reports, showSuccessMessage,
                           isLoading, isSubmitting, error, now, inserts, insertCalls,
                           timers, fetches, refreshes, store, nextId, feed, others,
                           currentTime, pickedAt, life>>
       ELSE /\ isSubmitting' = TRUE
            /\ error' = NoError
            /\ inserts' = Append(inserts,
                  [report |-> [animalType |-> selectedAnimal,
                               latitude |-> selectedLocation.lat,
                               longitude |-> selectedLocation.lng,
                               reportTime |-> now],
                   committed |-> FALSE])
            /\ insertCalls' = insertCalls + 1
            /\ last' = [op |-> "submit", met |-> inserts # <<>>]
            /\ UNCHANGED <<selectedAnimal, selectedLocation, reports, showSuccessMessage,
                           isLoading, alertOpen, now, timers, fetches, refreshes,
                           store, nextId, feed, others, currentTime, pickedAt, life>>

\* a press of the submit button, which is disabled unless isFormValid
SubmitButton == isFormValid /\ handleSubmit

\* a submit event that reaches the form's onSubmit while the button is disabled
SubmitBypass == ~isFormValid /\ handleSubmit

\* the user closes the alert
DismissAlert ==
    /\ alertOpen
    /\ alertOpen' = FALSE
    /\ UNCHANGED <<selectedAnimal, selectedLocation, reports, showSuccessMessage, isLoading,
                   isSubmitting, error, now, inserts, insertCalls, timers, fetches,
                   refreshes, store, nextId, feed, others, last, currentTime, pickedAt, life>>

\* the store publishes a change: it reaches the feed of the view only while the
\* view's channel is subscribed
Publish(event) == IF life.channels > 0 THEN Append(feed, event) ELSE feed

\* the store commits the i-th insert in flight: it assigns the id and queues the
\* INSERT notification
InsertCommit(i) ==
    /\ ~inserts[i].committed
    /\ LET row == [id |-> nextId,
                   animalType |-> inserts[i].report.animalType,
                   latitude |-> inserts[i].report.latitude,
                   longitude |-> inserts[i].report.longitude,
                   reportTime |-> inserts[i].report.reportTime]
       IN /\ store' = store \cup {row}
          /\ feed' = Publish([eventType |-> "INSERT", new |-> row, old |-> row.id])
    /\ nextId' = nextId + 1
    /\ inserts' = [inserts EXCEPT ![i].committed = TRUE]
    /\ UNCHANGED <<selectedAnimal, selectedLocation, reports, showSuccessMessage, isLoading,
                   isSubmitting, error, alertOpen, now, insertCalls, timers, fetches,
                   refreshes, others, last, currentTime, pickedAt, life>>

\* resetForm without setSelectedLocation(null)
resetForm_KeepsLocation ==
    /\ selectedAnimal' = NoAnimal
    /\ selectedLocation' = selectedLocation

\* resetForm
resetForm ==
    /\ selectedAnimal' = NoAnimal
    /\ selectedLocation' = NoLocation

\* InsertSuccess that also puts the submitted report at the head of the list
InsertSuccess_AddsLocally(i) ==
    /\ ~alertOpen
    /\ inserts[i].committed
    /\ showSuccessMessage' = TRUE
    /\ timers' = timers + 1
    /\ resetForm
    /\ isSubmitting' = FALSE
    /\ reports' = <<[id |-> nextId - 1,
                     animalType |-> inserts[i].report.animalType,
                     latitude |-> inserts[i].report.latitude,
                     longitude |-> inserts[i].report.longitude,
                     reportTime |-> inserts[i].report.reportTime]>> \o reports
    /\ inserts' = RemoveAt(inserts, i)
    /\ last' = [op |-> "insertSuccess",
                met |-> selectedLocation # SentLocation(inserts[i].report)]
    /\ UNCHANGED <<isLoading, error, alertOpen, now, insertCalls, fetches,
                   refreshes, store, nextId, feed, others, currentTime, pickedAt, life>>

\* handleSubmit after the await, insertError null
InsertSuccess(i) ==
    /\ ~alertOpen
    /\ inserts[i].committed
    /\ showSuccessMessage' = TRUE
    /\ timers' = timers + 1
    /\ resetForm
    /\ isSubmitting' = FALSE
    /\ inserts' = RemoveAt(inserts, i)
    /\ last' = [op |-> "insertSuccess",
                met |-> selectedLocation # SentLocation(inserts[i].report)]
    /\ UNCHANGED <<reports, isLoading, error, alertOpen, now, insertCalls, fetches,
                   refreshes, store, nextId, feed, others, currentTime, pickedAt, life>>

\* handleSubmit after the await, insertError set or the request rejected
InsertFail(i) ==
    /\ ~alertOpen
    /\ error' = SubmitErrorMsg
    /\ isSubmitting' = FALSE
    /\ inserts' = RemoveAt(inserts, i)
    /\ last' = [op |-> "insertFail",
                met |-> selectedLocation # SentLocation(inserts[i].report)]
    /\ UNCHANGED <<selectedAnimal, selectedLocation, reports, showSuccessMessage, isLoading,
                   alertOpen, now, insertCalls, timers, fetches, refreshes, store, nextId,
                   feed, others, currentTime, pickedAt, life>>

\* setTimeout(() => setShowSuccessMessage(false), 3000) fires
TimerFire ==
    /\ ~alertOpen
    /\ timers > 0
    /\ timers' = timers - 1
    /\ showSuccessMessage' = FALSE
    /\ last' = [op |-> "timer", met |-> FALSE]
    /\ UNCHANGED <<selectedAnimal, selectedLocation, reports, isLoading, isSubmitting,
                   error, alertOpen, now, inserts, insertCalls, fetches, refreshes, store,
                   nextId, feed, others, currentTime, pickedAt, life>>

\* the client clock advances
Tick ==
    /\ now' = now + 1
    /\ UNCHANGED <<selectedAnimal, selectedLocation, reports, showSuccessMessage, isLoading,
                   isSubmitting, error, alertOpen, inserts, insertCalls, timers, fetches,
                   refreshes, store, nextId, feed, others, last, currentTime, pickedAt, life>>

\* updateTime, called by setInterval(updateTime, 1000) until clearInterval
updateTime ==
    /\ life.interval
    /\ ~alertOpen
    /\ currentTime # now
    /\ currentTime' = now
    /\ last' = [op |-> "clock", met |-> FALSE]
    /\ UNCHANGED <<selectedAnimal, selectedLocation, reports, showSuccessMessage, isLoading,
                   isSubmitting, error, alertOpen, now, inserts, insertCalls, timers,
                   fetches, refreshes, store, nextId, feed, others, pickedAt, life>>

(* ------------------------------------------------------------- the list *)
\* fetchReports up to the await of the query
fetchReports ==
    /\ isLoading' = TRUE
    /\ error' = NoError
    /\ fetches' = Append(fetches, [served |-> FALSE, rows |-> <<>>])

\* a press of the refresh button, which is disabled while isLoading
Refresh ==
    /\ life.mounted
    /\ ~alertOpen
    /\ ~isLoading
    /\ fetchReports
    /\ refreshes' = refreshes + 1
    /\ last' = [op |-> "refresh", met |-> FALSE]
    /\ UNCHANGED <<selectedAnimal, selectedLocation, reports, showSuccessMessage,
                   isSubmitting, alertOpen, now, inserts, insertCalls, timers, store,
                   nextId, feed, others, currentTime, pickedAt, life>>

\* the store evaluates the query of the j-th fetch in flight
FetchServe(j) ==
    /\ ~fetches[j].served
    /\ \E rows \in FetchResults :
          fetches' = [fetches EXCEPT ![j] = [served |-> TRUE, rows |-> rows]]
    /\ UNCHANGED <<selectedAnimal, selectedLocation, reports, showSuccessMessage, isLoading,
                   isSubmitting, error, alertOpen, now, inserts, insertCalls, timers,
                   refreshes, store, nextId, feed, others, last, currentTime, pickedAt, life>>

\* FetchSuccess that keeps the entries the response does not contain
FetchSuccess_Merges(j) ==
    /\ ~alertOpen
    /\ fetches[j].served
    /\ reports' = fetches[j].rows \o
                  SelectSeq(reports, LAMBDA r : \A k \in 1..Len(fetches[j].rows) :
                                                    fetches[j].rows[k].id # r.id)
    /\ isLoading' = FALSE
    /\ fetches' = RemoveAt(fetches, j)
    /\ last' = [op |-> "fetchSuccess",
                met |-> \E i \in 1..Len(reports) :
                           \A k \in 1..Len(fetches[j].rows) : fetches[j].rows[k] # reports[i]]
    /\ UNCHANGED <<selectedAnimal, selectedLocation, showSuccessMessage, isSubmitting,
                   error, alertOpen, now, inserts, insertCalls, timers, refreshes, store,
                   nextId, feed, others, currentTime, pickedAt, life>>

\* fetchReports after the await, fetchError null: setReports(data || [])
FetchSuccess(j) ==
    /\ ~alertOpen
    /\ fetches[j].served
    /\ reports' = fetches[j].rows
    /\ isLoading' = FALSE
    /\ fetches' = RemoveAt(fetches, j)
    /\ last' = [op |-> "fetchSuccess",
                met |-> \E i \in 1..Len(reports) :
                           \A k \in 1..Len(fetches[j].rows) : fetches[j].rows[k] # reports[i]]
    /\ UNCHANGED <<selectedAnimal, selectedLocation, showSuccessMessage, isSubmitting,
                   error, alertOpen, now, inserts, insertCalls, timers, refreshes, store,
                   nextId, feed, others, currentTime, pickedAt, life>>

\* FetchFail with setReports([]) in the catch
FetchFail_ClearsList(j) ==
    /\ ~alertOpen
    /\ error' = FetchErrorMsg
    /\ isLoading' = FALSE
    /\ reports' = <<>>
    /\ fetches' = RemoveAt(fetches, j)
    /\ last' = [op |-> "fetchFail", met |-> fetches[j].served]
    /\ UNCHANGED <<selectedAnimal, selectedLocation, showSuccessMessage,
                   isSubmitting, alertOpen, now, inserts, insertCalls, timers, refreshes,
                   store, nextId, feed, others, currentTime, pickedAt, life>>

\* fetchReports after the await, fetchError set or the request rejected
FetchFail(j) ==
    /\ ~alertOpen
    /\ error' = FetchErrorMsg
    /\ isLoading' = FALSE
    /\ fetches' = RemoveAt(fetches, j)
    /\ last' = [op |-> "fetchFail", met |-> fetches[j].served]
    /\ UNCHANGED <<selectedAnimal, selectedLocation, reports, showSuccessMessage,
                   isSubmitting, alertOpen, now, inserts, insertCalls, timers, refreshes,
                   store, nextId, feed, others, currentTime, pickedAt, life>>

\* OnChange whose UPDATE branch drops the notified row instead of replacing it
OnChange_UpdateDrops(prev, payload) ==
    IF payload.eventType = "INSERT" THEN <<payload.new>> \o Slice(prev, SliceEnd)
    ELSE IF payload.eventType = "DELETE" THEN FilterOut(prev, payload.old)
    ELSE IF payload.eventType = "UPDATE" THEN FilterOut(prev, payload.new.id)
    ELSE prev

\* the postgres_changes callback applied to the list
OnChange(prev, payload) ==
    IF payload.eventType = "INSERT" THEN <<payload.new>> \o Slice(prev, SliceEnd)
    ELSE IF payload.eventType = "DELETE" THEN FilterOut(prev, payload.old)
    ELSE IF payload.eventType = "UPDATE" THEN MapReplace(prev, payload.new)
    ELSE prev

\* the channel delivers the oldest undelivered notification
Notify ==
    /\ life.channels > 0
    /\ ~alertOpen
    /\ feed # <<>>
    /\ reports' = OnChange(reports, Head(feed))
    /\ feed' = Tail(feed)
    /\ last' = [op |-> Head(feed).eventType,
                met |-> \E i \in 1..Len(reports) : reports[i].id = Head(feed).old]
    /\ UNCHANGED <<selectedAnimal, selectedLocation, showSuccessMessage, isLoading,
                   isSubmitting, error, alertOpen, now, inserts, insertCalls, timers,
                   fetches, refreshes, store, nextId, others, currentTime, pickedAt, life>>

(* ---------------------------------------------------------------- mount *)
\* the state after the first render, before any effect has run: the useState
\* initial values, no request, no channel, no interval
InitRender ==
    /\ selectedAnimal = NoAnimal
    /\ selectedLocation = NoLocation
    /\ reports = <<>>
    /\ showSuccessMessage = FALSE
    /\ isLoading = FALSE
    /\ isSubmitting = FALSE
    /\ error = NoError
    /\ alertOpen = FALSE
    /\ now = 1
    /\ inserts = <<>>
    /\ insertCalls = 0
    /\ timers = 0
    /\ fetches = <<>>
    /\ refreshes = 0
    /\ store = {}
    /\ nextId = 1
    /\ feed = <<>>
    /\ others = 0
    /\ last = [op |-> "render", met |-> FALSE]
    /\ currentTime = 0      \* useState<string>(''): no time displayed yet
    /\ pickedAt = 1
    /\ life = [mounted |-> TRUE, channels |-> 0, subscribes |-> 0, removes |-> 0,
               interval |-> FALSE]

\* the three effects run after the first render: fetchReports(), the subscription,
\* updateTime() and setInterval
MountEffects ==
    /\ life.mounted
    /\ life.subscribes = 0
    /\ ~alertOpen
    /\ fetchReports
    /\ currentTime' = now
    /\ life' = [life EXCEPT !.channels = life.channels + 1,
                            !.subscribes = life.subscribes + 1,
                            !.interval = TRUE]
    /\ last' = [op |-> "mount", met |-> fetches # <<>>]
    /\ UNCHANGED <<selectedAnimal, selectedLocation, reports, showSuccessMessage,
                   isSubmitting, alertOpen, now, inserts, insertCalls, timers, refreshes,
                   store, nextId, feed, others, pickedAt>>

(* ------------------------------------------------------------- teardown *)
\* Unmount without supabase.removeChannel(channel) in the cleanup
Unmount_KeepsChannel ==
    /\ life.mounted
    /\ ~alertOpen
    /\ life' = [life EXCEPT !.mounted = FALSE, !.interval = FALSE]
    /\ last' = [op |-> "unmount", met |-> inserts # <<>> \/ fetches # <<>> \/ timers > 0]
    /\ UNCHANGED <<selectedAnimal, selectedLocation, reports, showSuccessMessage, isLoading,
                   isSubmitting, error, alertOpen, now, inserts, insertCalls, timers,
                   fetches, refreshes, store, nextId, feed, others, currentTime, pickedAt>>

\* the view is unmounted: React runs the cleanups of the effects in one commit,
\* supabase.removeChannel(channel) and clearInterval(interval); nothing else is
\* cancelled
Unmount ==
    /\ life.mounted
    /\ ~alertOpen
    /\ life' = [life EXCEPT !.mounted = FALSE,
                            !.channels = life.channels - 1,
                            !.removes = life.removes + 1,
                            !.interval = FALSE]
    /\ last' = [op |-> "unmount", met |-> inserts # <<>> \/ fetches # <<>> \/ timers > 0]
    /\ UNCHANGED <<selectedAnimal, selectedLocation, reports, showSuccessMessage, isLoading,
                   isSubmitting, error, alertOpen, now, inserts, insertCalls, timers,
                   fetches, refreshes, store, nextId, feed, others, currentTime, pickedAt>>

(* ------------------------------------------------- other clients' writes *)
\* another client inserts a row
OtherInsert(animal, time) ==
    /\ LET row == [id |-> nextId, animalType |-> animal,
                   latitude |-> OtherLocation.lat, longitude |-> OtherLocation.lng,
                   reportTime |-> time]
       IN /\ store' = store \cup {row}
          /\ feed' = Publish([eventType |-> "INSERT", new |-> row, old |-> row.id])
    /\ nextId' = nextId + 1
    /\ others' = others + 1
    /\ UNCHANGED <<selectedAnimal, selectedLocation, reports, showSuccessMessage, isLoading,
                   isSubmitting, error, alertOpen, now, inserts, insertCalls, timers,
                   fetches, refreshes, last, currentTime, pickedAt, life>>

\* a row of the collection is updated
OtherUpdate(row, animal) ==
    /\ row \in store
    /\ animal # row.animalType
    /\ LET new == [row EXCEPT !.animalType = animal]
       IN /\ store' = (store \ {row}) \cup {new}
          /\ feed' = Publish([eventType |-> "UPDATE", new |-> new, old |-> row.id])
    /\ others' = others + 1
    /\ UNCHANGED <<selectedAnimal, selectedLocation, reports, showSuccessMessage, isLoading,
                   isSubmitting, error, alertOpen, now, inserts, insertCalls, timers,
                   fetches, refreshes, nextId, last, currentTime, pickedAt, life>>

\* a row of the collection is deleted
OtherDelete(row) ==
    /\ row \in store
    /\ store' = store \ {row}
    /\ feed' = Publish([eventType |-> "DELETE", new |-> row, old |-> row.id])
    /\ others' = others + 1
    /\ UNCHANGED <<selectedAnimal, selectedLocation, reports, showSuccessMessage, isLoading,
                   isSubmitting, error, alertOpen, now, inserts, insertCalls, timers,
                   fetches, refreshes, nextId, last, currentTime, pickedAt, life>>

(* -------------------------------------------------------- specifications *)
\* the steps of the form and of its insert requests
FormStep ==
    \/ \E value \in AnimalCategories \cup {NoAnimal} : handleAnimalChange(value)
    \/ \E location \in Locations : handleLocationSelect(location)
    \/ insertCalls < MaxSubmits /\ SubmitButton
    \/ insertCalls < MaxSubmits /\ SubmitBypass
    \/ DismissAlert
    \/ \E i \in 1..Len(inserts) : InsertCommit(i)
    \/ \E i \in 1..Len(inserts) : InsertSuccess(i)
    \/ \E i \in 1..Len(inserts) : InsertFail(i)
    \/ TimerFire

\* the steps of the list: the fetches and the change feed
ListStep ==
    \/ refreshes < MaxRefresh /\ Refresh
    \/ \E j \in 1..Len(fetches) : FetchServe(j)
    \/ \E j \in 1..Len(fetches) : FetchSuccess(j)
    \/ \E j \in 1..Len(fetches) : FetchFail(j)
    \/ Notify

\* the writes of other clients
OtherStep ==
    \/ \E time \in Times : OtherInsert("rat", time)
    \/ \E row \in store, animal \in OtherAnimals : OtherUpdate(row, animal)
    \/ \E row \in store : OtherDelete(row)

\* the whole view and its store
Next ==
    \/ FormStep
    \/ ListStep
    \/ others < MaxOther /\ OtherStep
    \/ now < MaxTime /\ Tick
    \/ updateTime
    \/ Unmount

Spec == Init /\ [][Next]_vars

\* the form alone: the list, the store's other clients and the clock stand still
SpecForm == Init /\ [][FormStep]_vars

\* the list alone: nobody touches the form, and the other clients' sightings come
\* each later than the one before
NextList ==
    \/ ListStep
    \/ others < MaxOther /\ OtherInsert("rat", nextId)
    \/ others < MaxOther /\ \E row \in store, animal \in OtherAnimals : OtherUpdate(row, animal)
    \/ others < MaxOther /\ \E row \in store : OtherDelete(row)

SpecList == Init /\ [][NextList]_vars

\* the list while other clients only insert
NextWindow ==
    \/ ListStep
    \/ others < MaxWindow /\ OtherInsert("rat", nextId)

SpecWindow == Init /\ [][NextWindow]_vars

\* the list while other clients insert sightings stamped by their own clocks
NextOrder ==
    \/ ListStep
    \/ others < MaxOrder /\ \E time \in Times : OtherInsert("rat", time)

SpecOrder == Init /\ [][NextOrder]_vars

\* the list from the first render on: the effects of the mount are a step of their
\* own, and the refresh button is live before they run
NextMount ==
    \/ MountEffects
    \/ NextList

SpecMount == InitRender /\ [][NextMount]_vars

\* the form driven through its enabled controls only
NextControls ==
    \/ \E value \in AnimalCategories \cup {NoAnimal} : handleAnimalChange(value)
    \/ \E location \in Locations : handleLocationSelect(location)
    \/ insertCalls < MaxSubmits /\ SubmitButton
    \/ \E i \in 1..Len(inserts) : InsertCommit(i)
    \/ \E i \in 1..Len(inserts) : InsertSuccess(i)
    \/ \E i \in 1..Len(inserts) : InsertFail(i)
    \/ TimerFire

SpecControls == Init /\ [][NextControls]_vars

\* the form and the clocks: the client clock advances and the 1-second interval
\* refreshes the displayed time
NextClock ==
    \/ \E value \in AnimalCategories \cup {NoAnimal} : handleAnimalChange(value)
    \/ \E location \in Locations : handleLocationSelect(location)
    \/ insertCalls < MaxLifeSubmits /\ SubmitButton
    \/ \E i \in 1..Len(inserts) : InsertCommit(i)
    \/ \E i \in 1..Len(inserts) : InsertSuccess(i)
    \/ \E i \in 1..Len(inserts) : InsertFail(i)
    \/ TimerFire
    \/ now < MaxTime /\ Tick
    \/ updateTime

SpecClock == Init /\ [][NextClock]_vars

\* one visit from mount to teardown: the form, the list and the unmount
NextLife ==
    \/ handleAnimalChange("fox")
    \/ \E location \in Locations : handleLocationSelect(location)
    \/ insertCalls < MaxLifeSubmits /\ SubmitButton
    \/ \E i \in 1..Len(inserts) : InsertCommit(i)
    \/ \E i \in 1..Len(inserts) : InsertSuccess(i)
    \/ \E i \in 1..Len(inserts) : InsertFail(i)
    \/ TimerFire
    \/ ListStep
    \/ Unmount

SpecLife == Init /\ [][NextLife]_vars

(* ---------------------------------------------------------------- claims *)
\* C1: in every reachable state submit is enabled if and only if a category of the
\* fixed set is selected, a location is selected and no insert is in flight.
C1_SubmitEnabledIffReady ==
    isFormValid <=> (/\ selectedAnimal \in AnimalCategories
                     /\ selectedLocation # NoLocation
                     /\ inserts = <<>>)

\* C2: at most one insert is in flight at any time; a submit that reaches the
\* handler while an insert is pending issues no insert.
C2_OneInsertInFlight ==
    [][/\ Len(inserts') <= 1
       /\ (handleSubmit /\ inserts # <<>>) => insertCalls' = insertCalls]_vars

\* C3: a submit handled while the category or the location is unset only raises the
\* alert: no insert is issued and the selections, the submitting flag, the error
\* flag and the list stay as they are.
C3_InvalidSubmitOnlyAlerts ==
    [][(handleSubmit /\ (selectedAnimal = NoAnimal \/ selectedLocation = NoLocation))
         => /\ alertOpen'
            /\ UNCHANGED <<selectedAnimal, selectedLocation, isSubmitting, error, reports,
                           inserts, insertCalls, store, feed>>]_vars

\* C3 witness: with a category and no location the handler was reached and raised
\* the alert, and no insert was ever issued.
C3_Witness ==
    /\ last.op = "alert"
    /\ alertOpen
    /\ selectedAnimal \in AnimalCategories
    /\ selectedLocation = NoLocation
    /\ insertCalls = 0

\* C4: when an insert in flight resolves successfully, category and location are
\* unset and the submitting flag is cleared, whatever happened during the flight.
C4_SuccessResetsForm ==
    [][\A i \in 1..Len(inserts) :
          InsertSuccess(i) => /\ selectedAnimal' = NoAnimal
                              /\ selectedLocation' = NoLocation
                              /\ isSubmitting' = FALSE]_vars

\* C4 witness: an insert has just succeeded after the map was clicked during its
\* flight, and the form is idle.
C4_Witness ==
    /\ last = [op |-> "insertSuccess", met |-> TRUE]
    /\ selectedAnimal = NoAnimal
    /\ selectedLocation = NoLocation
    /\ ~isSubmitting

\* C5: when an insert in flight fails, category and location are the values they had
\* when submit was pressed, the submitting flag is cleared and the error is set.
C5_FailureKeepsSubmitted ==
    [][\A i \in 1..Len(inserts) :
          InsertFail(i) => /\ selectedAnimal' = inserts[i].report.animalType
                           /\ selectedLocation' = SentLocation(inserts[i].report)
                           /\ isSubmitting' = FALSE
                           /\ error' # NoError]_vars

\* C6: the displayed list never holds more entries than the limit fetchRecent uses.
C6_ListWithinFetchLimit == Len(reports) <= FetchLimit

\* C7: an update notification replaces every entry with the notified id by the
\* notified record, in place, and changes nothing else; with no such entry the list
\* is unchanged.
C7_UpdateReplacesInPlace ==
    [][(Notify /\ Head(feed).eventType = "UPDATE")
         => LET new == Head(feed).new
            IN /\ Len(reports') = Len(reports)
               /\ \A i \in 1..Len(reports) :
                     /\ reports[i].id = new.id => reports'[i] = new
                     /\ reports[i].id # new.id => reports'[i] = reports[i]
               /\ (\A i \in 1..Len(reports) : reports[i].id # new.id)
                     => reports' = reports]_vars

\* C7 witness: an update has just replaced the second of two entries.
C7_Witness ==
    /\ last = [op |-> "UPDATE", met |-> TRUE]
    /\ Len(reports) = 2
    /\ reports[1].animalType = "rat"
    /\ reports[2].animalType = "fox"

\* C8: a delete notification removes the entries with the notified id and keeps the
\* others in their order; with no such entry the list is unchanged.
C8_DeleteRemovesMatching ==
    [][(Notify /\ Head(feed).eventType = "DELETE")
         => LET id == Head(feed).old
                kept == {i \in 1..Len(reports) : reports[i].id # id}
                rank(i) == Cardinality({k \in kept : k <= i})
            IN /\ Len(reports') = Cardinality(kept)
               /\ \A i \in kept : reports'[rank(i)] = reports[i]
               /\ kept = 1..Len(reports) => reports' = reports]_vars

\* C8 witness: a delete of id 2 has just turned the list [3,2,1] into [3,1].
C8_Witness ==
    /\ last = [op |-> "DELETE", met |-> TRUE]
    /\ [i \in 1..Len(reports) |-> reports[i].id] = <<3, 1>>

\* C9: when a fetch resolves successfully the list becomes exactly the response rows
\* in response order, whatever it held before.
C9_FetchReplacesWholesale ==
    [][\A j \in 1..Len(fetches) : FetchSuccess(j) => reports' = fetches[j].rows]_vars

\* C9 witness: a manual refresh has just resolved and dropped an entry the list held
\* that the response does not contain.
C9_Witness ==
    /\ last = [op |-> "fetchSuccess", met |-> TRUE]
    /\ refreshes = 1
    /\ fetches = <<>>

\* C10: a failed fetch leaves the list as it was, sets the error and clears the
\* loading flag; the start and the success of a fetch never set the error.
C10_FetchFailure ==
    [][/\ \A j \in 1..Len(fetches) :
             /\ FetchFail(j) => /\ reports' = reports
                                /\ error' = FetchErrorMsg
                                /\ isLoading' = FALSE
             /\ FetchSuccess(j) => error' = error
       /\ Refresh => error' = NoError]_vars

\* C10 witness: a fetch whose response was already served has just failed while the
\* list held entries.
C10_Witness ==
    /\ last = [op |-> "fetchFail", met |-> TRUE]
    /\ reports # <<>>
    /\ error = FetchErrorMsg
    /\ ~isLoading

\* C11: after the teardown nothing writes the view's state: a notification, a fetch
\* resolution, an insert resolution or a timer that fires after the unmount leaves
\* the list, the flags, the form and the displayed clock as they are.
C11_NothingAfterTeardown ==
    [][~life.mounted => UNCHANGED <<selectedAnimal, selectedLocation, reports,
                                    showSuccessMessage, isLoading, isSubmitting, error,
                                    currentTime>>]_vars

\* C12: exactly one subscription is open from mount to teardown: it is opened once,
\* no form action, fetch or notification closes or reopens it while the view is
\* mounted, and the unmount closes it once, in the step that cancels the clock.
C12_OneSubscription ==
    /\ life.subscribes = 1
    /\ life.mounted => (life.channels = 1 /\ life.removes = 0 /\ life.interval)
    /\ ~life.mounted => (life.channels = 0 /\ life.removes = 1 /\ ~life.interval)

\* C12 witness: the view was torn down after a submit and a refresh, with a
\* notification still undelivered, and a resolution ran after the teardown.
C12_Witness ==
    /\ ~life.mounted
    /\ life.removes = 1
    /\ insertCalls = 1
    /\ refreshes = 1
    /\ feed # <<>>
    /\ last.op \in {"insertSuccess", "insertFail", "fetchSuccess", "fetchFail"}

\* C13: after a failed insert the error indicator stays shown until the next
\* state-changing action of the user, and that action, a category selection, a map
\* click, an accepted submit or a refresh, clears it.
C13_NextActionClearsError ==
    [][LET userAction ==
               \/ last'.op = "select" /\ selectedAnimal' # selectedAnimal
               \/ last'.op = "click" /\ selectedLocation' # selectedLocation
               \/ last'.op = "submit" /\ insertCalls' # insertCalls
               \/ last'.op = "refresh" /\ refreshes' # refreshes
       IN error = SubmitErrorMsg =>
             IF userAction THEN error' = NoError ELSE error' = error]_vars

\* C14: the resolution of an insert, successful or failed, leaves the displayed list
\* as it is; a row enters the list only with an insert notification or with a
\* fetch response.
C14_ResolutionKeepsList ==
    [][/\ Len(inserts') < Len(inserts) => reports' = reports
       /\ (\E k \in 1..Len(reports') : \A i \in 1..Len(reports) : reports[i].id # reports'[k].id)
            => \/ last'.op = "INSERT" /\ feed' = Tail(feed)
               \/ last'.op = "fetchSuccess" /\ Len(fetches') < Len(fetches)]_vars

\* C14 witness: the insert succeeded and its row is stored, but the list, already
\* loaded, does not show it: the notification is still undelivered.
C14_Witness ==
    /\ last.op = "insertSuccess"
    /\ store # {}
    /\ feed # <<>>
    /\ fetches = <<>>
    /\ reports = <<>>

\* C15: a submit accepted while the form is valid issues exactly one insert; its
\* animalType, latitude and longitude are the selections of that moment and its
\* reportTime is the client clock of that moment, not the clock of the selection.
C15_InsertCarriesSelections ==
    [][(isFormValid /\ insertCalls' # insertCalls)
         => /\ insertCalls' = insertCalls + 1
            /\ inserts' = Append(inserts,
                              [report |-> [animalType |-> selectedAnimal,
                                           latitude |-> selectedLocation.lat,
                                           longitude |-> selectedLocation.lng,
                                           reportTime |-> now],
                               committed |-> FALSE])]_vars

\* C15 witness: the selections were made at clock 1 and submitted at clock 2, and
\* the insert in flight carries them with reportTime 2.
C15_Witness ==
    /\ last.op = "submit"
    /\ pickedAt = 1
    /\ now = 2
    /\ Len(inserts) = 1
    /\ inserts[1].report = [animalType |-> selectedAnimal,
                            latitude |-> selectedLocation.lat,
                            longitude |-> selectedLocation.lng,
                            reportTime |-> 2]

\* C16: after every successful insert the success indicator is shown for the 3
\* seconds counted from that success, also when an earlier success is less than 3
\* seconds old: while the timeout of the latest success is pending, the indicator
\* is shown. (The timeouts have one delay and fire in the order they were set, so
\* the timeout of the latest success is pending as long as any is.)
C16_ShownUntilOwnTimeout ==
    timers > 0 => showSuccessMessage

\* C17: in every reachable state the displayed list is ordered most recent first
\* by reportTime.
C17_MostRecentFirst ==
    \A i, j \in 1..Len(reports) : i < j => reports[i].reportTime >= reports[j].reportTime

\* C18 as claimed: an entry of the list leaves it only through a delete
\* notification for its id; no other event removes an entry that is present.
C18_LeavesOnlyByDelete ==
    [][\A i \in 1..Len(reports) :
          (\A k \in 1..Len(reports') : reports'[k].id # reports[i].id)
            => /\ feed # <<>>
               /\ Head(feed).eventType = "DELETE"
               /\ Head(feed).old = reports[i].id
               /\ feed' = Tail(feed)]_vars

\* C18 amended: an entry of the list leaves it only through a delete notification
\* for its id, through a successful fetch response that does not contain it, or
\* by eviction when an insert notification meets a list longer than the slice; an
\* update notification, a refresh press and a failed fetch remove nothing.
C18_LeavesByDeleteOrFetch ==
    [][\A i \in 1..Len(reports) :
          (\A k \in 1..Len(reports') : reports'[k].id # reports[i].id)
            => \/ /\ feed # <<>>
                  /\ Head(feed).eventType = "DELETE"
                  /\ Head(feed).old = reports[i].id
                  /\ feed' = Tail(feed)
               \/ /\ last'.op = "fetchSuccess"
                  /\ \E j \in 1..Len(fetches) :
                        /\ fetches[j].served
                        /\ fetches' = RemoveAt(fetches, j)
                        /\ reports' = fetches[j].rows
               \/ /\ feed # <<>>
                  /\ Head(feed).eventType = "INSERT"
                  /\ feed' = Tail(feed)
                  /\ i > SliceEnd]_vars

\* C18 witness: a fetch response replaced a list that held an entry the response
\* lacks, and left the list empty while the store holds rows.
C18_Witness ==
    /\ last.op = "fetchSuccess"
    /\ last.met
    /\ reports = <<>>
    /\ store # {}

\* C19: the list never holds two entries with the same id, whatever the
\* interleaving of fetch responses and notifications.
C19_NoDuplicateIds ==
    \A i, j \in 1..Len(reports) : reports[i].id = reports[j].id => i = j

\* C20: in every reachable state the loading flag is true exactly when at least one
\* fetch is in flight, also when the initial load and a refresh overlap.
C20_LoadingIffFetchInFlight ==
    isLoading <=> fetches # <<>>

====
